---------------------------- MODULE Spec2Model ----------------------------
(***************************************************************************)
(* State-machine model of src/nyc_311_fetcher.py: the rolling-window 311   *)
(* pipeline get_time_window -> fetch_311_data -> clean_and_filter ->       *)
(* save_to_csv, composed by fetch_and_save_311_rolling.                    *)
(*                                                                         *)
(* Time.  An instant is counted in whole hours since 2024-01-01T00:00Z     *)
(* (field hr), seconds within the hour (field sec, 0..3599) and the        *)
(* datetime microsecond field (us, 0..999999).  An aware datetime carries   *)
(* its wall-clock reading and the UTC offset of its tzinfo in hours (off). *)
(* pytz tzinfo objects are fixed-offset, so arithmetic keeps off.          *)
(***************************************************************************)
EXTENDS Integers, Sequences, FiniteSets, TLC

\* ------------------------------------------------------------------ bounds
MaxHours == 2
MaxRows == 3
ParMaxRows == 2

\* ------------------------------------------------- constants of the program
DEFAULT_LIMIT == 50000
DefaultHours == 24
\* America/New_York in 2024: EDT from 2024-03-10T07:00Z to 2024-11-03T06:00Z
DstStart == 1663
DstEnd == 7374
EstOff == -5
EdtOff == -4
UsPerMs == 1000

Runs == {1, 2}

VARIABLES pc, args, clock, win, req, gets, resp, dfRaw, dfClean, alias,
          err, ret, out, fh, fs, wlog

vars == <<pc, args, clock, win, req, gets, resp, dfRaw, dfClean, alias,
          err, ret, out, fh, fs, wlog>>

\* ------------------------------------------------------------- file names
NoneFile == [isNone |-> TRUE, path |-> ""]
Str(p) == [isNone |-> FALSE, path |-> p]
\* Python truthiness of the filename argument (`if filename:`)
Truthy(f) == ~f.isNone /\ f.path # ""
Paths == {"a.csv", "b.csv"}

\* ------------------------------------------------------------------ cells
\* parsed cells: pandas Timestamp (kind "ts") or NaT (kind "nat")
NaT == [kind |-> "nat", hr |-> 0, sec |-> 0, us |-> 0, off |-> 0]
NoCell == [kind |-> "none", hr |-> 0, sec |-> 0, us |-> 0, off |-> 0]
Ts(h, s, u, o) == [kind |-> "ts", hr |-> h, sec |-> s, us |-> u, off |-> o]
\* raw JSON values of created_date: key absent, unparseable text, ISO text
Absent == [kind |-> "absent", hr |-> 0, sec |-> 0, frac |-> <<>>]
NotADate == [kind |-> "text", hr |-> 0, sec |-> 0, frac |-> <<>>]
IsoText(h, s, f) == [kind |-> "iso", hr |-> h, sec |-> s, frac |-> f]

NoWindow == [start_nyc |-> NoCell, start_utc |-> NoCell,
             start_iso |-> Absent]
NoTable == [cols |-> <<>>, rows |-> <<>>, made |-> FALSE]
NoReq == [limit |-> 0, since |-> Absent, order |-> ""]

\* ------------------------------------------------------------- time helpers
NycOffset(utcHr) == IF utcHr >= DstStart /\ utcHr < DstEnd THEN EdtOff ELSE EstOff

\* the UTC instant an aware datetime denotes, as a comparable triple
Instant(c) == <<c.hr - c.off, c.sec, c.us>>

TripleGeq(a, b) ==
    \/ a[1] > b[1]
    \/ a[1] = b[1] /\ a[2] > b[2]
    \/ a[1] = b[1] /\ a[2] = b[2] /\ a[3] >= b[3]

\* datetime.now(NYC_TIMEZONE): tz.fromutc of the wall clock's UTC reading
NowNyc(u) == Ts(u.hr + NycOffset(u.hr), u.sec, u.us, NycOffset(u.hr))

\* aware datetime - timedelta(hours=h): wall-clock arithmetic, tzinfo kept;
\* re-resolving the offset from the new wall time is the mutant
SubHoursRelocalized(dt, h) ==
    [dt EXCEPT !.hr = @ - h, !.off = NycOffset(dt.hr - h - dt.off)]
SubHours(dt, h) == [dt EXCEPT !.hr = @ - h]

\* dt.astimezone(pytz.utc)
AsTimezoneUtc(dt) == [dt EXCEPT !.hr = @ - dt.off, !.off = 0]

\* %f : the microsecond field as six zero-padded decimal digits
Digits6(us) == << (us \div 100000) % 10, (us \div 10000) % 10,
                  (us \div 1000) % 10, (us \div 100) % 10,
                  (us \div 10) % 10, us % 10 >>

\* strftime('%Y-%m-%dT%H:%M:%S.%f'): no offset suffix is printed
Strftime(dt) == IsoText(dt.hr, dt.sec, Digits6(dt.us))

RECURSIVE DigitsVal(_)
DigitsVal(f) == IF f = <<>> THEN 0
                ELSE 10 * DigitsVal(SubSeq(f, 1, Len(f) - 1)) + f[Len(f)]

\* s[:-3]; rounding to the nearest millisecond is the mutant
DropLast3Rounded(s) ==
    LET ms == (DigitsVal(s.frac) + 500) \div 1000
    IN [s EXCEPT !.frac = <<(ms \div 100) % 10, (ms \div 10) % 10, ms % 10>>]
DropLast3(s) == [s EXCEPT !.frac = SubSeq(@, 1, Len(@) - 3)]

RECURSIVE Pow10(_)
Pow10(n) == IF n = 0 THEN 1 ELSE 10 * Pow10(n - 1)

\* the instant an ISO text denotes (fraction of 0..6 digits), read as UTC
IsoInstant(s) == <<s.hr, s.sec, DigitsVal(s.frac) * Pow10(6 - Len(s.frac))>>

\* get_time_window(hours) at wall-clock reading u
TimeWindow(u, h) ==
    LET now_nyc == NowNyc(u)
        start_nyc == SubHours(now_nyc, h)
        start_utc == AsTimezoneUtc(start_nyc)
        start_iso == DropLast3(Strftime(start_utc))
    IN [start_nyc |-> start_nyc, start_utc |-> start_utc,
        start_iso |-> start_iso]

\* ------------------------------------------------------------------ tables
\* pd.to_datetime(x, errors="coerce", utc=True) on one value
ToDatetime(v) ==
    IF v.kind = "iso"
    THEN Ts(v.hr, v.sec, DigitsVal(v.frac) * Pow10(6 - Len(v.frac)), 0)
    ELSE NaT

\* Timestamp >= datetime: False whenever the left side is NaT;
\* `not (x < start)` (NaT passes) and a strict comparison are the mutants
CellGeqNotLess(c, start) ==
    c.kind # "ts" \/ TripleGeq(Instant(c), Instant(start))
CellGeqStrict(c, start) ==
    c.kind = "ts" /\ TripleGeq(Instant(c), Instant(start))
                  /\ Instant(c) # Instant(start)
CellGeq(c, start) == c.kind = "ts" /\ TripleGeq(Instant(c), Instant(start))

\* .dt.tz_convert(NYC_TIMEZONE) on one value
TzConvert(c) ==
    IF c.kind = "ts"
    THEN LET u == c.hr - c.off
         IN Ts(u + NycOffset(u), c.sec, c.us, NycOffset(u))
    ELSE NaT

\* pd.DataFrame(data): one row per JSON object, RangeIndex labels 0..n-1,
\* the columns are the keys that occur in some object
HasCreated(data) == \E i \in DOMAIN data : data[i].created_date.kind # "absent"
DataFrame(data) ==
    [cols |-> IF data = <<>> THEN <<>>
              ELSE IF HasCreated(data) THEN <<"unique_key", "created_date">>
              ELSE <<"unique_key">>,
     rows |-> [i \in DOMAIN data |->
                 [idx |-> i - 1, key |-> data[i].unique_key,
                  cd |-> data[i].created_date, nyc |-> NoCell]],
     made |-> TRUE]

HasCol(t, c) == \E i \in DOMAIN t.cols : t.cols[i] = c

\* df.empty; a check that never short-circuits is the mutant
EmptyNever(t) == FALSE
Empty(t) == Len(t.rows) = 0 \/ Len(t.cols) = 0

\* df["created_date"] = pd.to_datetime(df["created_date"], ...)
ParseColumn(t) ==
    [t EXCEPT !.rows = [i \in DOMAIN t.rows |->
                          [t.rows[i] EXCEPT !.cd = ToDatetime(@)]]]

\* df[mask]: the rows whose mask entry is True, index labels kept
RECURSIVE BoolIndex(_, _)
BoolIndex(rows, mask) ==
    IF rows = <<>> THEN <<>>
    ELSE LET n == Len(rows)
             front == BoolIndex(SubSeq(rows, 1, n - 1), SubSeq(mask, 1, n - 1))
         IN IF mask[n] THEN Append(front, rows[n]) ELSE front

\* df[df["created_date"] >= start_time_utc]: a new table
FilterRows(t, start) ==
    [t EXCEPT !.rows = BoolIndex(t.rows,
                          [i \in DOMAIN t.rows |-> CellGeq(t.rows[i].cd, start)])]

\* df["created_date_nyc"] = df["created_date"].dt.tz_convert(NYC_TIMEZONE)
AddNycColumn(t) ==
    [t EXCEPT !.cols = Append(@, "created_date_nyc"),
              !.rows = [i \in DOMAIN t.rows |->
                          [t.rows[i] EXCEPT !.nyc = TzConvert(t.rows[i].cd)]]]

\* --------------------------------------------------------------------- csv
Field(t, h, s, f, o) == [text |-> t, hr |-> h, sec |-> s, frac |-> f, off |-> o]
NameField(t) == Field(t, 0, 0, <<>>, 0)

\* the text to_csv prints for one cell: a Timestamp with its offset, NaT as ""
CsvCell(c) ==
    IF c.kind = "ts" THEN Field("", c.hr, c.sec, Digits6(c.us), c.off)
    ELSE IF c.kind = "iso" THEN Field("", c.hr, c.sec, c.frac, 0)
    ELSE IF c.kind = "text" THEN NameField("not-a-date")
    ELSE NameField("")

CsvRowField(row, col) ==
    IF col = "unique_key" THEN NameField(row.key)
    ELSE IF col = "created_date" THEN CsvCell(row.cd)
    ELSE CsvCell(row.nyc)

Line(fields) == [nul |-> FALSE, fields |-> fields]
\* what a read finds where nothing was written (a hole past a truncation)
NulLine == [nul |-> TRUE, fields |-> <<>>]

\* df.to_csv(filename, index=False): a header line of the column names, then
\* one line per row in column order; the index label is not written
CsvLines(t) ==
    <<Line([j \in DOMAIN t.cols |-> NameField(t.cols[j])])>> \o
    [i \in DOMAIN t.rows |->
        Line([j \in DOMAIN t.cols |-> CsvRowField(t.rows[i], t.cols[j])])]

NoFile == [exists |-> FALSE, lines |-> <<>>]

\* one write(2) at the handle's own offset
WriteAt(lines, off, line) ==
    IF off < Len(lines) THEN [lines EXCEPT ![off + 1] = line]
    ELSE lines \o [k \in 1..(off - Len(lines)) |-> NulLine] \o <<line>>

\* ------------------------------------------------------------ input domains
Hours == (0..MaxHours) \cup {DefaultHours}
Files == {NoneFile, Str(""), Str("a.csv")}
Nows == {[hr |-> h, sec |-> 59, us |-> u] :
            h \in {DstStart + 1, DstEnd + 1}, u \in {0, 1500, 999999}}

SeqsUpTo(S, n) == UNION {[1..k -> S] : k \in 0..n}

\* created_date values a response may carry, placed around the window of run r
BackFrom(u, h) == IsoText(u.hr - h, u.sec, Digits6(u.us))
RawValues(r) ==
    {Absent, NotADate, BackFrom(clock[r], 30), BackFrom(clock[r], 10),
     BackFrom(clock[r], 1), win[r].start_iso}
Records(r) == {[unique_key |-> "k", created_date |-> v] : v \in RawValues(r)}

ParHours == {DefaultHours}
ParFiles == {NoneFile, Str("a.csv"), Str("b.csv")}
ParNows == {[hr |-> DstStart + 100, sec |-> 0, us |-> 0]}
ParRecords(r) ==
    {[unique_key |-> IF r = 1 THEN "k1" ELSE "k2", created_date |-> v] :
        v \in {Absent, BackFrom(clock[r], 1)}}

\* ------------------------------------------------------------------- state
Msg(m, n) == [msg |-> m, n |-> n]

Init ==
    /\ pc = [r \in Runs |-> "idle"]
    /\ args = [r \in Runs |-> [hours |-> DefaultHours, filename |-> NoneFile]]
    /\ clock = [r \in Runs |-> [hr |-> 0, sec |-> 0, us |-> 0]]
    /\ win = [r \in Runs |-> NoWindow]
    /\ req = [r \in Runs |-> NoReq]
    /\ gets = [r \in Runs |-> 0]
    /\ resp = [r \in Runs |-> <<>>]
    /\ dfRaw = [r \in Runs |-> NoTable]
    /\ dfClean = [r \in Runs |-> NoTable]
    /\ alias = [r \in Runs |-> FALSE]
    /\ err = [r \in Runs |-> "none"]
    /\ ret = [r \in Runs |-> NoTable]
    /\ out = [r \in Runs |-> <<>>]
    /\ fh = [r \in Runs |-> [state |-> "never", off |-> 0]]
    /\ fs = [p \in Paths |-> NoFile]
    /\ wlog = <<>>

\* fetch_and_save_311_rolling(hours, filename) is entered: line 54
Call(r, H, F) ==
    /\ pc[r] = "idle"
    /\ \E h \in H, f \in F : args' = [args EXCEPT ![r] = [hours |-> h, filename |-> f]]
    /\ out' = [out EXCEPT ![r] = Append(@, Msg("fetching", args'[r].hours))]
    /\ pc' = [pc EXCEPT ![r] = "window"]
    /\ UNCHANGED <<clock, win, req, gets, resp, dfRaw, dfClean, alias, err,
                   ret, fh, fs, wlog>>

\* lines 55-56: get_time_window reads the clock once and derives the window
GetTimeWindow(r, N) ==
    /\ pc[r] = "window"
    /\ \E u \in N :
         /\ clock' = [clock EXCEPT ![r] = u]
         /\ win' = [win EXCEPT ![r] = TimeWindow(u, args[r].hours)]
    /\ out' = [out EXCEPT ![r] = Append(@, Msg("window_start", 0))]
    /\ pc' = [pc EXCEPT ![r] = "fetch"]
    /\ UNCHANGED <<args, req, gets, resp, dfRaw, dfClean, alias, err, ret,
                   fh, fs, wlog>>

\* how the call ends for the run when an exception leaves it
Raise(r, e) ==
    /\ err' = [err EXCEPT ![r] = e]
    /\ pc' = [pc EXCEPT ![r] = "failed"]

\* line 58: fetch_311_data(since_iso=start_iso); a retry after a failed
\* request is the mutant
FetchRetrying(r, S, n) ==
    /\ pc[r] = "fetch"
    /\ gets' = [gets EXCEPT ![r] = @ + 1]
    /\ req' = [req EXCEPT ![r] = [limit |-> DEFAULT_LIMIT,
                                  since |-> win[r].start_iso,
                                  order |-> "created_date DESC"]]
    /\ \/ /\ IF gets[r] = 0 THEN UNCHANGED <<err, pc>>
                            ELSE Raise(r, "ConnectionError")
          /\ UNCHANGED <<resp, dfRaw>>
       \/ /\ Raise(r, "HTTPError")
          /\ UNCHANGED <<resp, dfRaw>>
       \/ /\ Raise(r, "JSONDecodeError")
          /\ UNCHANGED <<resp, dfRaw>>
       \/ /\ \E data \in SeqsUpTo(S, n) :
               /\ resp' = [resp EXCEPT ![r] = data]
               /\ dfRaw' = [dfRaw EXCEPT ![r] = DataFrame(data)]
          /\ pc' = [pc EXCEPT ![r] = "clean"]
          /\ UNCHANGED err
    /\ UNCHANGED <<args, clock, win, dfClean, alias, ret, out, fh, fs, wlog>>
Fetch(r, S, n) ==
    /\ pc[r] = "fetch"
    /\ gets' = [gets EXCEPT ![r] = @ + 1]
    /\ req' = [req EXCEPT ![r] = [limit |-> DEFAULT_LIMIT,
                                  since |-> win[r].start_iso,
                                  order |-> "created_date DESC"]]
    /\ \/ /\ Raise(r, "ConnectionError")
          /\ UNCHANGED <<resp, dfRaw>>
       \/ /\ Raise(r, "HTTPError")
          /\ UNCHANGED <<resp, dfRaw>>
       \/ /\ Raise(r, "JSONDecodeError")
          /\ UNCHANGED <<resp, dfRaw>>
       \/ /\ \E data \in SeqsUpTo(S, n) :
               /\ resp' = [resp EXCEPT ![r] = data]
               /\ dfRaw' = [dfRaw EXCEPT ![r] = DataFrame(data)]
          /\ pc' = [pc EXCEPT ![r] = "clean"]
          /\ UNCHANGED err
    /\ UNCHANGED <<args, clock, win, dfClean, alias, ret, out, fh, fs, wlog>>

\* clean_and_filter(df, start_time_utc) on the table the run fetched
CleanResult(t, start) == AddNycColumn(FilterRows(ParseColumn(t), start))

\* line 59: clean_and_filter(df_raw, start_time_utc=start_utc); doing all
\* three steps in the caller's table is the mutant
CleanInPlace(r) ==
    /\ pc[r] = "clean"
    /\ \/ /\ Empty(dfRaw[r])
          /\ dfClean' = [dfClean EXCEPT ![r] = dfRaw[r]]
          /\ alias' = [alias EXCEPT ![r] = TRUE]
          /\ pc' = [pc EXCEPT ![r] = "report"]
          /\ UNCHANGED <<dfRaw, err>>
       \/ /\ ~Empty(dfRaw[r])
          /\ ~HasCol(dfRaw[r], "created_date")
          /\ Raise(r, "KeyError")
          /\ UNCHANGED <<dfRaw, dfClean, alias>>
       \/ /\ ~Empty(dfRaw[r])
          /\ HasCol(dfRaw[r], "created_date")
          /\ dfRaw' = [dfRaw EXCEPT ![r] = CleanResult(@, win[r].start_utc)]
          /\ dfClean' = [dfClean EXCEPT ![r] =
                            CleanResult(dfRaw[r], win[r].start_utc)]
          /\ alias' = [alias EXCEPT ![r] = TRUE]
          /\ pc' = [pc EXCEPT ![r] = "report"]
          /\ UNCHANGED err
    /\ UNCHANGED <<args, clock, win, req, gets, resp, ret, out, fh, fs, wlog>>
Clean(r) ==
    /\ pc[r] = "clean"
    /\ \/ \* lines 35-36: the empty table is handed back as it is
          /\ Empty(dfRaw[r])
          /\ dfClean' = [dfClean EXCEPT ![r] = dfRaw[r]]
          /\ alias' = [alias EXCEPT ![r] = TRUE]
          /\ pc' = [pc EXCEPT ![r] = "report"]
          /\ UNCHANGED <<dfRaw, err>>
       \/ \* line 37: df["created_date"] on a table without the column
          /\ ~Empty(dfRaw[r])
          /\ ~HasCol(dfRaw[r], "created_date")
          /\ Raise(r, "KeyError")
          /\ UNCHANGED <<dfRaw, dfClean, alias>>
       \/ \* lines 37-40: the column is parsed in the caller's table; the
          \* filter makes a new table, which gets the new column
          /\ ~Empty(dfRaw[r])
          /\ HasCol(dfRaw[r], "created_date")
          /\ dfRaw' = [dfRaw EXCEPT ![r] = ParseColumn(@)]
          /\ dfClean' = [dfClean EXCEPT ![r] =
                            CleanResult(dfRaw[r], win[r].start_utc)]
          /\ alias' = [alias EXCEPT ![r] = FALSE]
          /\ pc' = [pc EXCEPT ![r] = "report"]
          /\ UNCHANGED err
    /\ UNCHANGED <<args, clock, win, req, gets, resp, ret, out, fh, fs, wlog>>

\* lines 61-65 without a save: the count is printed, `if filename:` is false;
\* testing `filename is not None` instead is the mutant of WantsSave
WantsSaveNotNone(f) == ~f.isNone
WantsSave(f) == Truthy(f)

Report(r) ==
    /\ pc[r] = "report"
    /\ out' = [out EXCEPT ![r] = Append(@, Msg("retrieved", Len(dfClean[r].rows)))]
    /\ \/ /\ WantsSave(args[r].filename)
          /\ pc' = [pc EXCEPT ![r] = "save"]
          /\ UNCHANGED ret
       \/ /\ ~WantsSave(args[r].filename)
          /\ ret' = [ret EXCEPT ![r] = dfClean[r]]
          /\ pc' = [pc EXCEPT ![r] = "done"]
    /\ UNCHANGED <<args, clock, win, req, gets, resp, dfRaw, dfClean, alias,
                   err, fh, fs, wlog>>

\* line 45, first part: to_csv opens the path for writing, which truncates it.
\* Mutants: the error is swallowed and the table returned; the file is opened
\* without truncation.
SaveOpenSwallowing(r) ==
    /\ pc[r] = "save"
    /\ \/ /\ args[r].filename.path \in Paths
          /\ fs' = [fs EXCEPT ![args[r].filename.path] =
                        [exists |-> TRUE, lines |-> <<>>]]
          /\ fh' = [fh EXCEPT ![r] = [state |-> "open", off |-> 0]]
          /\ wlog' = Append(wlog, [run |-> r, ev |-> "open"])
          /\ pc' = [pc EXCEPT ![r] = "writing"]
          /\ UNCHANGED <<err, ret>>
       \/ /\ fh' = [fh EXCEPT ![r].state = "failed"]
          /\ ret' = [ret EXCEPT ![r] = dfClean[r]]
          /\ pc' = [pc EXCEPT ![r] = "done"]
          /\ UNCHANGED <<fs, wlog, err>>
    /\ UNCHANGED <<args, clock, win, req, gets, resp, dfRaw, dfClean, alias,
                   out>>
SaveOpenKeeping(r) ==
    /\ pc[r] = "save"
    /\ \/ /\ args[r].filename.path \in Paths
          /\ fs' = [fs EXCEPT ![args[r].filename.path].exists = TRUE]
          /\ fh' = [fh EXCEPT ![r] = [state |-> "open", off |-> 0]]
          /\ wlog' = Append(wlog, [run |-> r, ev |-> "open"])
          /\ pc' = [pc EXCEPT ![r] = "writing"]
          /\ UNCHANGED err
       \/ /\ Raise(r, "OSError")
          /\ fh' = [fh EXCEPT ![r].state = "failed"]
          /\ UNCHANGED <<fs, wlog>>
    /\ UNCHANGED <<args, clock, win, req, gets, resp, dfRaw, dfClean, alias,
                   ret, out>>
SaveOpen(r) ==
    /\ pc[r] = "save"
    /\ \/ /\ args[r].filename.path \in Paths
          /\ fs' = [fs EXCEPT ![args[r].filename.path] =
                        [exists |-> TRUE, lines |-> <<>>]]
          /\ fh' = [fh EXCEPT ![r] = [state |-> "open", off |-> 0]]
          /\ wlog' = Append(wlog, [run |-> r, ev |-> "open"])
          /\ pc' = [pc EXCEPT ![r] = "writing"]
          /\ UNCHANGED err
       \/ \* PermissionError, FileNotFoundError, ...
          /\ Raise(r, "OSError")
          /\ fh' = [fh EXCEPT ![r].state = "failed"]
          /\ UNCHANGED <<fs, wlog>>
    /\ UNCHANGED <<args, clock, win, req, gets, resp, dfRaw, dfClean, alias,
                   ret, out>>

\* line 45, second part: the lines go out one write at a time, each at the
\* handle's own offset
SaveWrite(r) ==
    /\ pc[r] = "writing"
    /\ fh[r].off < Len(CsvLines(dfClean[r]))
    /\ \/ /\ fs' = [fs EXCEPT ![args[r].filename.path].lines =
                        WriteAt(@, fh[r].off, CsvLines(dfClean[r])[fh[r].off + 1])]
          /\ fh' = [fh EXCEPT ![r].off = @ + 1]
          /\ UNCHANGED <<err, pc, wlog>>
       \/ \* a write fails (disk full, ...): the handle is closed on the way out
          /\ Raise(r, "OSError")
          /\ fh' = [fh EXCEPT ![r].state = "failed"]
          /\ wlog' = Append(wlog, [run |-> r, ev |-> "abort"])
          /\ UNCHANGED fs
    /\ UNCHANGED <<args, clock, win, req, gets, resp, dfRaw, dfClean, alias,
                   ret, out>>

\* lines 45-46 and 65: the file is closed, the confirmation printed, the
\* cleaned table returned
SaveDone(r) ==
    /\ pc[r] = "writing"
    /\ fh[r].off = Len(CsvLines(dfClean[r]))
    /\ fh' = [fh EXCEPT ![r].state = "closed"]
    /\ wlog' = Append(wlog, [run |-> r, ev |-> "close"])
    /\ out' = [out EXCEPT ![r] = Append(@, Msg("saved", 0))]
    /\ ret' = [ret EXCEPT ![r] = dfClean[r]]
    /\ pc' = [pc EXCEPT ![r] = "done"]
    /\ UNCHANGED <<args, clock, win, req, gets, resp, dfRaw, dfClean, alias,
                   err, fs>>

\* one call of fetch_and_save_311_rolling
Next ==
    \/ Call(1, Hours, Files)
    \/ GetTimeWindow(1, Nows)
    \/ Fetch(1, Records(1), MaxRows)
    \/ Clean(1)
    \/ Report(1)
    \/ SaveOpen(1)
    \/ SaveWrite(1)
    \/ SaveDone(1)

Spec == Init /\ [][Next]_vars

\* two calls running in parallel processes
NextPar ==
    \E r \in Runs :
        \/ Call(r, ParHours, ParFiles)
        \/ GetTimeWindow(r, ParNows)
        \/ Fetch(r, ParRecords(r), ParMaxRows)
        \/ Clean(r)
        \/ Report(r)
        \/ SaveOpen(r)
        \/ SaveWrite(r)
        \/ SaveDone(r)

SpecPar == Init /\ [][NextPar]_vars

\* ================================================================== claims
\* the run has a cleaned table (clean_and_filter returned)
Cleaned(r) == dfClean[r].made
\* clean_and_filter ran its lines 37-40 (non-empty table with the column)
CleanedNonEmpty(r) == Cleaned(r) /\ resp[r] # <<>>
\* the raw value of the response object a surviving row came from
RawOf(r, row) == resp[r][row.idx + 1].created_date
\* a raw value that denotes an instant at or after the boundary of run r
Qualifies(r, v) ==
    v.kind = "iso" /\ TripleGeq(IsoInstant(v), Instant(win[r].start_utc))
FetchErrors == {"ConnectionError", "HTTPError", "JSONDecodeError"}

\* C1: every row of the cleaned (and of the returned) table has a non-null
\* created_date at or after utc_start, and it is the instant its own raw text
\* denotes: a missing or unparseable value is never kept and never replaced.
C1_RowsAtOrAfterBoundary ==
    \A r \in Runs :
        \A t \in {dfClean[r], ret[r]} :
            (t.made /\ resp[r] # <<>>) =>
                \A i \in DOMAIN t.rows :
                    /\ t.rows[i].cd.kind = "ts"
                    /\ TripleGeq(Instant(t.rows[i].cd), Instant(win[r].start_utc))
                    /\ RawOf(r, t.rows[i]).kind = "iso"
                    /\ Instant(t.rows[i].cd) = IsoInstant(RawOf(r, t.rows[i]))

C1_Witness ==
    \E r \in Runs :
        /\ pc[r] = "done"
        /\ \E i \in DOMAIN resp[r] : resp[r][i].created_date = NotADate
        /\ \E i \in DOMAIN resp[r] : resp[r][i].created_date = Absent
        /\ Len(ret[r].rows) = 1

\* C2: for a non-empty raw table the output is exactly the sub-sequence of
\* the input rows whose created_date parses to an instant >= the boundary, in
\* input order, duplicates kept, each with created_date (UTC) and
\* created_date_nyc (America/New_York) holding the same instant.
C2_ExactSubsequence ==
    \A r \in Runs :
        CleanedNonEmpty(r) =>
            LET rows == dfClean[r].rows IN
            /\ dfClean[r].cols = <<"unique_key", "created_date", "created_date_nyc">>
            /\ {rows[i].idx + 1 : i \in DOMAIN rows} =
                   {j \in DOMAIN resp[r] : Qualifies(r, resp[r][j].created_date)}
            /\ \A i, j \in DOMAIN rows : i < j => rows[i].idx < rows[j].idx
            /\ \A i \in DOMAIN rows :
                   /\ rows[i].key = resp[r][rows[i].idx + 1].unique_key
                   /\ rows[i].cd.kind = "ts" /\ rows[i].cd.off = 0
                   /\ Instant(rows[i].cd) = IsoInstant(RawOf(r, rows[i]))
                   /\ rows[i].nyc.kind = "ts"
                   /\ Instant(rows[i].nyc) = Instant(rows[i].cd)
                   /\ rows[i].nyc.off = NycOffset(rows[i].cd.hr)

\* the scenario T-30h, T-10h, T-1h with a 24-hour lookback
C2_Witness ==
    \E r \in Runs :
        /\ pc[r] = "done"
        /\ args[r].hours = DefaultHours
        /\ resp[r] = [i \in 1..3 |->
                        [unique_key |-> "k",
                         created_date |-> BackFrom(clock[r],
                                            IF i = 1 THEN 30 ELSE IF i = 2 THEN 10 ELSE 1)]]
        /\ Len(ret[r].rows) = 2
        /\ ret[r].rows[1].idx = 1 /\ ret[r].rows[2].idx = 2

\* C3: an empty fetch result comes back from clean_and_filter as the same,
\* unchanged, empty table: nothing is raised and no column is added.
C3_EmptyShortCircuit ==
    \A r \in Runs :
        (dfRaw[r].made /\ resp[r] = <<>> /\ pc[r] # "clean") =>
            /\ err[r] # "KeyError"
            /\ alias[r]
            /\ dfClean[r] = dfRaw[r]
            /\ dfRaw[r] = [cols |-> <<>>, rows |-> <<>>, made |-> TRUE]
            /\ ~HasCol(dfClean[r], "created_date_nyc")

C3_Witness ==
    \E r \in Runs : dfRaw[r].made /\ resp[r] = <<>> /\ pc[r] = "done"

\* C4: a run issues exactly one HTTP GET, never a second; a GET that ends in a
\* network failure or a non-success status ends the run with that error:
\* nothing is cleaned, no file is opened or written, no table is returned.
C4_OneGetNoRetry ==
    \A r \in Runs :
        /\ gets[r] <= 1
        /\ (pc[r] \in {"idle", "window", "fetch"}) = (gets[r] = 0)
        /\ (gets[r] = 1) => req[r].since = win[r].start_iso
        /\ (err[r] \in FetchErrors) =>
              /\ pc[r] = "failed"
              /\ ~dfRaw[r].made /\ ~dfClean[r].made /\ ~ret[r].made
              /\ fh[r].state = "never"
              /\ \A i \in DOMAIN wlog : wlog[i].run # r

C4_Witness ==
    \E r \in Runs : pc[r] = "failed" /\ err[r] = "HTTPError" /\ gets[r] = 1

Ended(r) == pc[r] \in {"done", "failed"}
Said(r, m) == \E i \in DOMAIN out[r] : out[r][i].msg = m
\* the run wrote its whole file and closed it
Wrote(r) == fh[r].state = "closed"
FileOf(r) == fs[args[r].filename.path]

\* C5 as stated: in every run whose fetch succeeded (and whose table was
\* cleaned), a file is written iff an output path was given (read here as a
\* non-empty path), and the cleaned table is returned either way.
C5_AsStated ==
    \A r \in Runs :
        (Ended(r) /\ dfRaw[r].made /\ Cleaned(r)) =>
            /\ Wrote(r) = Truthy(args[r].filename)
            /\ ret[r].made /\ ret[r] = dfClean[r]

\* C5 amended: in every run that returns, a file was written iff a non-empty
\* output path was given; a save is attempted only for a non-empty path and
\* only after cleaning has completed; the file holds the cleaned table; and
\* the returned value is the cleaned table, path given or not.
C5_SaveIffPathAndReturn ==
    \A r \in Runs :
        /\ (pc[r] \in {"save", "writing"} \/ fh[r].state # "never") =>
               Truthy(args[r].filename) /\ Cleaned(r)
        /\ pc[r] = "done" =>
               /\ Cleaned(r)
               /\ ret[r] = dfClean[r]
               /\ Wrote(r) = Truthy(args[r].filename)
               /\ Wrote(r) => FileOf(r) =
                      [exists |-> TRUE, lines |-> CsvLines(dfClean[r])]
               /\ ~Wrote(r) => \A p \in Paths : fs[p] = NoFile

C5_Witness ==
    \E r \in Runs :
        /\ pc[r] = "done" /\ Wrote(r)
        /\ Len(ret[r].rows) = 2
        /\ Len(FileOf(r).lines) = 3

\* C6: when the write to the given path fails with a filesystem error, the
\* call ends with that error and returns no table, although fetch and clean
\* had succeeded, and the save confirmation is not printed.
C6_SaveFailureIsFatal ==
    \A r \in Runs :
        fh[r].state = "failed" =>
            /\ pc[r] = "failed" /\ err[r] = "OSError"
            /\ ~ret[r].made
            /\ dfRaw[r].made /\ Cleaned(r) /\ gets[r] = 1
            /\ Said(r, "retrieved") /\ ~Said(r, "saved")

C6_Witness ==
    \E r \in Runs :
        /\ fh[r].state = "failed" /\ Truthy(args[r].filename)
        /\ Len(dfClean[r].rows) >= 1
        /\ \E i \in DOMAIN wlog : wlog[i] = [run |-> r, ev |-> "abort"]

\* C7: for a lookback h > 0 the UTC boundary is the clock reading minus h
\* hours, and the local boundary denotes the same instant as the UTC
\* boundary, also when the window crosses a daylight-saving transition.
C7_WindowInstants ==
    \A r \in Runs :
        (win[r] # NoWindow /\ args[r].hours > 0) =>
            /\ win[r].start_utc.kind = "ts" /\ win[r].start_utc.off = 0
            /\ Instant(win[r].start_utc) =
                   <<clock[r].hr - args[r].hours, clock[r].sec, clock[r].us>>
            /\ win[r].start_nyc.kind = "ts"
            /\ win[r].start_nyc.off = NycOffset(clock[r].hr)
            /\ Instant(win[r].start_nyc) = Instant(win[r].start_utc)

\* the window crosses the start of daylight-saving time
C7_Witness ==
    \E r \in Runs :
        /\ win[r] # NoWindow /\ args[r].hours > 0
        /\ NycOffset(clock[r].hr) = EdtOff
        /\ NycOffset(clock[r].hr - args[r].hours) = EstOff

PathOf(r) == args[r].filename.path
Pos(r, e) == CHOOSE i \in DOMAIN wlog : wlog[i] = [run |-> r, ev |-> e]
BothSaved == \A r \in Runs : pc[r] = "done" /\ Wrote(r)
\* run a closed its file before run b opened it
OneAfterTheOther(a, b) == Pos(a, "close") < Pos(b, "open")
OwnKey(r) == IF r = 1 THEN "k1" ELSE "k2"

\* C8 as stated: with distinct paths each file holds its own run's cleaned
\* table; with one path the final content is that of one of the two runs.
C8_AsStated ==
    BothSaved =>
        IF PathOf(1) # PathOf(2)
        THEN \A r \in Runs : FileOf(r).lines = CsvLines(dfClean[r])
        ELSE \E r \in Runs : FileOf(r).lines = CsvLines(dfClean[r])

\* C8 amended: parallel runs share no state but the files: each run's table
\* holds only rows of its own response; a file only one run has opened holds
\* exactly that run's cleaned table once the run is done; and when two runs
\* save to one path one after the other (the first closed the file before the
\* second opened it), the file holds the later run's table.
C8_ParallelRuns ==
    /\ \A r \in Runs :
          /\ \A t \in {dfClean[r], ret[r]} :
                \A i \in DOMAIN t.rows : t.rows[i].key = OwnKey(r)
          /\ \A t \in {dfClean[r], ret[r]} :
                (t.made /\ resp[r] # <<>>) =>
                    t = CleanResult(DataFrame(resp[r]), win[r].start_utc)
          /\ ( /\ pc[r] = "done" /\ Wrote(r)
               /\ \A q \in Runs \ {r} :
                     fh[q].state = "never" \/ PathOf(q) # PathOf(r) )
             => FileOf(r) = [exists |-> TRUE, lines |-> CsvLines(dfClean[r])]
    /\ \A a, b \in Runs :
          (a # b /\ BothSaved /\ PathOf(a) = PathOf(b) /\ OneAfterTheOther(a, b))
             => FileOf(b) = [exists |-> TRUE, lines |-> CsvLines(dfClean[b])]

\* two saves to one path, one after the other, the first one the longer
C8_Witness ==
    /\ BothSaved
    /\ PathOf(1) = PathOf(2)
    /\ OneAfterTheOther(1, 2)
    /\ Len(dfClean[1].rows) = 2 /\ Len(dfClean[2].rows) = 1
    /\ FileOf(2).lines = CsvLines(dfClean[2])

\* what line 37 alone leaves in the caller's table
ParsedOnly(r) ==
    [cols |-> <<"unique_key", "created_date">>,
     rows |-> [i \in DOMAIN resp[r] |->
                 [idx |-> i - 1, key |-> resp[r][i].unique_key,
                  cd |-> IF resp[r][i].created_date.kind = "iso"
                         THEN Ts(resp[r][i].created_date.hr,
                                 resp[r][i].created_date.sec,
                                 IsoInstant(resp[r][i].created_date)[3], 0)
                         ELSE NaT,
                  nyc |-> NoCell]],
     made |-> TRUE]

\* C9 as stated: after the call on a non-empty table the input table and the
\* returned table are the same table in the same state.
C9_AsStated ==
    \A r \in Runs : CleanedNonEmpty(r) => alias[r] /\ dfRaw[r] = dfClean[r]

\* C9 amended: only the parsing of created_date is done in the caller's
\* table; after a call on a non-empty table the input table still has all
\* its rows and no created_date_nyc column, and the returned table is another
\* table, which alone is filtered and carries the added column.
C9_OnlyParsingInPlace ==
    \A r \in Runs :
        CleanedNonEmpty(r) =>
            /\ ~alias[r]
            /\ dfRaw[r] = ParsedOnly(r)
            /\ Len(dfRaw[r].rows) = Len(resp[r])
            /\ ~HasCol(dfRaw[r], "created_date_nyc")
            /\ HasCol(dfClean[r], "created_date_nyc")
            /\ dfRaw[r] # dfClean[r]

C9_Witness ==
    \E r \in Runs :
        /\ pc[r] = "done" /\ CleanedNonEmpty(r)
        /\ Len(dfRaw[r].rows) = 3 /\ Len(ret[r].rows) = 1
        /\ \E i \in DOMAIN dfRaw[r].rows : dfRaw[r].rows[i].cd = NaT

\* the `$where` clause of the request: created_date >= '<since_iso>'
RequestKeeps(v, since) ==
    v.kind = "iso" /\ TripleGeq(IsoInstant(v), IsoInstant(since))
\* t lies in [lo, hi)
InGap(t, lo, hi) == TripleGeq(t, lo) /\ ~TripleGeq(t, hi)

\* C10: the ISO text of the request is the UTC boundary rounded down to whole
\* milliseconds, t_iso <= utc_start < t_iso + 1 ms; the request filter keeps
\* every record the defensive filter keeps, and a record in [t_iso, utc_start)
\* passes the request filter and is removed by the defensive filter.
C10_IsoTruncatesToMillis ==
    \A r \in Runs :
        win[r] # NoWindow =>
            LET tiso == IsoInstant(win[r].start_iso)
                tutc == Instant(win[r].start_utc)
            IN
            /\ Len(win[r].start_iso.frac) = 3
            /\ tiso[1] = tutc[1] /\ tiso[2] = tutc[2]
            /\ tiso[3] <= tutc[3] /\ tutc[3] < tiso[3] + UsPerMs
            /\ tiso[3] % UsPerMs = 0
            /\ gets[r] = 1 => req[r].since = win[r].start_iso
            /\ Cleaned(r) =>
                  /\ \A i \in DOMAIN dfClean[r].rows :
                        RequestKeeps(RawOf(r, dfClean[r].rows[i]), req[r].since)
                  /\ \A j \in DOMAIN resp[r] :
                        ( /\ resp[r][j].created_date.kind = "iso"
                          /\ InGap(IsoInstant(resp[r][j].created_date), tiso, tutc) )
                        => /\ RequestKeeps(resp[r][j].created_date, req[r].since)
                           /\ \A i \in DOMAIN dfClean[r].rows :
                                 dfClean[r].rows[i].idx # j - 1

\* a record at t_iso, strictly before utc_start, was fetched and then removed
C10_Witness ==
    \E r \in Runs :
        /\ pc[r] = "done"
        /\ win[r].start_utc.us % UsPerMs # 0
        /\ \E j \in DOMAIN resp[r] :
              /\ resp[r][j].created_date = win[r].start_iso
              /\ RequestKeeps(resp[r][j].created_date, req[r].since)
              /\ \A i \in DOMAIN ret[r].rows : ret[r].rows[i].idx # j - 1

=============================================================================
